---- MODULE Spec2Model ----
(***************************************************************************)
(* State-machine model of the rpcx server dispatch core                    *)
(* (rpcx_server/src/lib.rs): the service registry, the accept loop, the    *)
(* per-connection decode loop with its scoped worker pool, and invoke_fn.  *)
(***************************************************************************)
EXTENDS Integers, Sequences, FiniteSets, TLC

(* ------------------------------ bounds --------------------------------- *)
\* connections the accept loop may accept
NumConns == 2
\* requests decoded over all connections
MaxReqs == 2
\* Server.thread_number: size of each connection's worker pool
ThreadNumber == 1

\* num_cpus::get(): processing units of the machine
num_cpus == 1

\* a constructor that ignores its argument
newAlways(n) == num_cpus * 2

\* Server::new: the pool size for constructor argument n
new(n) == IF n = 0 THEN num_cpus * 2 ELSE n

Conns == 1..NumConns
Workers == 1..new(ThreadNumber)

\* the (service_path, service_method) pairs of the requests clients send
ReqPairs == {<<"a", "c">>, <<"a.b", "c">>, <<"a.b", "b.c">>}

\* service_path / service_method strings; some contain a dot
Paths == {"a", "a.b"}
Methods == {"c", "b.c"}
\* RpcxFn values (function pointers)
Handlers == {"echo", "fail"}
Payloads == {"x"}

(* --------------------------- values ------------------------------------ *)
None == <<>>
Some(v) == <<v>>
Ok(v) == [ok |-> TRUE, val |-> v]
Err == [ok |-> FALSE, val |-> ""]

\* an RpcxFn applied to a payload: "echo" returns its input, "fail" returns Err
Call(f, payload) == IF f = "echo" THEN Ok(payload) ELSE Err

\* format!("{}.{}", service_path, service_method)
Key(service_path, service_method) == service_path \o "." \o service_method

VARIABLES
    services,     \* the registry: a set of <<key, handler>> entries
    registered,   \* history: handler of the latest register_fn call per pair
    got,          \* the last get_fn call and what it returned
    acceptor,     \* the accept loop: "listening" or "failed"
    pc,           \* per connection: position of the connection task
    peer,         \* per connection: "up" or "reset" (the client's end)
    sock,         \* per connection: "open" or "shutdown"
    decoded,      \* per connection: the requests decoded so far, in order
    queue,        \* per connection: jobs submitted to the pool, not yet taken
    worker,       \* per connection and pool thread: what it is doing
    loopw,        \* per connection: the decode loop's not-found reply write
    wire,         \* per connection: chunks written to the socket, in order
    nreq,         \* requests that arrived so far over all connections
    register_plugins, \* Server.register_plugins: the plugin chain, in order
    reg,          \* the register_fn call in progress or just finished
    plog,         \* the plugin invocations of that call, in order
    raw_fd,       \* Server.raw_fd: the descriptor recorded at bind
    nclose,       \* times the listening descriptor has been closed
    typed,        \* a call of a register_func! handler and its outcome
    inbox,        \* per connection: requests that arrived, not yet decoded
    arg_n,        \* the argument n of Server::new
    thread_number \* Server.thread_number

extVars == <<register_plugins, reg, plog, raw_fd, nclose, typed, inbox, arg_n,
             thread_number>>
regVars == <<services, registered, got, extVars>>
connVars == <<acceptor, pc, peer, sock, decoded, queue, worker, loopw, wire, nreq>>
vars == <<services, registered, got, acceptor, pc, peer, sock, decoded, queue,
          worker, loopw, wire, nreq, extVars>>

(* ------------------------------ registry ------------------------------- *)
\* HashMap::insert: the entry under key is replaced
Insert(map, key, f) == {e \in map : e[1] # key} \cup {<<key, f>>}

\* HashMap::get
Get(map, key) ==
    IF \E e \in map : e[1] = key
    THEN Some((CHOOSE e \in map : e[1] = key)[2])
    ELSE None

\* Server::get_fn
get_fn(map, service_path, service_method) ==
    Get(map, Key(service_path, service_method))

\* Server::register_fn (the register-plugin list is empty after Server::new)
register_fn(service_path, service_method, f) ==
    /\ services' = Insert(services, Key(service_path, service_method), f)
    /\ registered' = [registered EXCEPT ![<<service_path, service_method>>] = Some(f)]
    /\ UNCHANGED <<got, connVars, extVars>>

\* a caller looks a pair up
GetFnCall(service_path, service_method) ==
    /\ got' = [path |-> service_path, method |-> service_method,
               result |-> get_fn(services, service_path, service_method)]
    /\ UNCHANGED <<services, registered, connVars, extVars>>

\* no register_fn call has been made yet
NoCall == [path |-> "", method |-> "", f |-> "", i |-> 1, st |-> "none",
           before |-> None, chain |-> <<>>]

IdleWorker == [st |-> "idle", msg |-> None, f |-> None, pos |-> 0]
NoWrite == [data |-> None, pos |-> 0]

\* $arg_type: a pair of numbers, and its Default::default()
DefaultArgs == [a |-> 0, b |-> 0]

\* no call of the typed handler has been made
NoTyped == [x |-> <<>>, st |-> "", at |-> "none", args |-> DefaultArgs,
            invoked |-> FALSE, passed |-> None, reply |-> None, result |-> None]

ConnInit ==
    /\ acceptor = "listening"
    /\ pc = [c \in Conns |-> "none"]
    /\ peer = [c \in Conns |-> "up"]
    /\ sock = [c \in Conns |-> "open"]
    /\ decoded = [c \in Conns |-> <<>>]
    /\ queue = [c \in Conns |-> <<>>]
    /\ worker = [c \in Conns |-> [w \in Workers |-> IdleWorker]]
    /\ loopw = [c \in Conns |-> NoWrite]
    /\ wire = [c \in Conns |-> <<>>]
    /\ nreq = 0
    /\ register_plugins = <<>>
    /\ reg = NoCall
    /\ plog = <<>>
    /\ raw_fd = None
    /\ nclose = 0
    /\ typed = NoTyped
    /\ inbox = [c \in Conns |-> <<>>]
    /\ arg_n = ThreadNumber
    /\ thread_number = new(ThreadNumber)

\* Server::new: an empty registry
RegInit ==
    /\ services = {}
    /\ registered = [pm \in Paths \X Methods |-> None]
    /\ got = None
    /\ ConnInit

RegNext ==
    \/ \E p \in Paths, m \in Methods, f \in Handlers : register_fn(p, m, f)
    \/ \E p \in Paths, m \in Methods : GetFnCall(p, m)

RegSpec == RegInit /\ [][RegNext]_vars

(* ------------------------------ messages ------------------------------- *)
\* the reserved metadata key of a dispatch error
SERVICE_ERROR == "__rpcx_error__"

\* chunks (write calls) one encoded reply frame may take on the socket
FrameChunks == 2

\* a request Message as decoded from the wire
Request(seq, service_path, service_method, payload) ==
    [seq |-> seq, service_path |-> service_path,
     service_method |-> service_method, payload |-> payload]

\* Message::get_reply: same correlation fields, empty metadata and payload
get_reply(msg) ==
    [seq |-> msg.seq, service_path |-> msg.service_path,
     service_method |-> msg.service_method, metadata |-> {}, payload |-> ""]

\* the error text without the word order of the format string
NotFoundErrBad(key) == "service not found: " \o key

\* format!("service {} not found", key)
NotFoundErr(key) == "service " \o key \o " not found"

\* the reply the decode loop builds on a registry miss
NotFoundReply(msg) ==
    LET key == Key(msg.service_path, msg.service_method)
        reply_msg == get_reply(msg)
    IN [reply_msg EXCEPT !.metadata = Insert(@, SERVICE_ERROR, NotFoundErr(key))]

\* the reply invoke_fn builds from the handler's output
HandlerReply(msg, reply) == [get_reply(msg) EXCEPT !.payload = reply]

\* chunks pos+1..pos+k of an encoded frame
Chunks(data, pos, k) == [i \in 1..k |-> [frame |-> data, part |-> pos + i]]

\* a write on the connection's socket succeeds
Writable(c) == peer[c] = "up" /\ sock[c] = "open"

\* the connection task (and with it its pool) exists
Live(c) == pc[c] \notin {"none", "exited", "aborted", "killed"}

(* ------------------------------ accept loop ---------------------------- *)
\* listener.incoming() yields Ok(stream): spawn Server::process for it
\* (connections are numbered in the order they are accepted)
Accept(c) ==
    /\ acceptor = "listening"
    /\ pc[c] = "none"
    /\ \A d \in Conns : d < c => pc[d] # "none"
    /\ pc' = [pc EXCEPT ![c] = "reading"]
    /\ UNCHANGED <<regVars, acceptor, peer, sock, decoded, queue, worker, loopw,
                   wire, nreq>>

\* listener.incoming() yields Err: start_with_listener returns Err(Network)
\* and the listener it owns is dropped, which closes its descriptor
AcceptFail ==
    /\ acceptor = "listening"
    /\ acceptor' = "failed"
    /\ nclose' = nclose + 1
    /\ UNCHANGED <<services, registered, got, register_plugins, reg, plog, raw_fd,
                   typed, inbox, arg_n, thread_number>>
    /\ UNCHANGED <<pc, peer, sock, decoded, queue, worker, loopw, wire, nreq>>

\* the client's end resets the connection; from now on writes to it fail
\* (once the loop has shut the socket down writes fail anyway)
PeerReset(c) ==
    /\ pc[c] \in {"reading", "writing"}
    /\ peer[c] = "up"
    /\ peer' = [peer EXCEPT ![c] = "reset"]
    /\ UNCHANGED <<regVars, acceptor, pc, sock, decoded, queue, worker, loopw,
                   wire, nreq>>

(* ------------------------------ decode loop ---------------------------- *)
\* a submission that drops the job when no pool thread is idle
SubmitIfIdle(c, msg, f) ==
    /\ queue' = [queue EXCEPT ![c] =
                   IF \E w \in DOMAIN worker[c] : worker[c][w].st = "idle" /\ @ = <<>>
                   THEN Append(@, [msg |-> msg, f |-> f]) ELSE @]
    /\ UNCHANGED <<pc, loopw>>

\* every thread of the connection's pool has ended by a panic
PoolGone(c) == \A w \in DOMAIN worker[c] : worker[c][w].st = "dead"

\* a submission that waits until a pool thread is idle
SubmitWaits(c, msg, f) ==
    /\ \E w \in DOMAIN worker[c] : worker[c][w].st = "idle"
    /\ queue' = [queue EXCEPT ![c] = Append(@, [msg |-> msg, f |-> f])]
    /\ UNCHANGED <<pc, loopw>>

\* scoped.execute: the job is sent to the pool's channel; the pool threads
\* hold the receiving end, so with none of them left the send fails and
\* execute's unwrap panics in the decode loop
Submit(c, msg, f) ==
    IF PoolGone(c)
    THEN /\ pc' = [pc EXCEPT ![c] = "panicked"]
         /\ UNCHANGED <<queue, loopw>>
    ELSE /\ queue' = [queue EXCEPT ![c] = Append(@, [msg |-> msg, f |-> f])]
         /\ UNCHANGED <<pc, loopw>>

\* registry miss: the decode loop builds the reply and starts writing it
Miss(c, msg) ==
    /\ loopw' = [loopw EXCEPT ![c] = [data |-> Some(NotFoundReply(msg)), pos |-> 0]]
    /\ pc' = [pc EXCEPT ![c] = "writing"]
    /\ UNCHANGED queue

\* the Ok arm of the loop: look the key of the decoded request up, submit a
\* job or answer not-found
Dispatch(c, msg) ==
    LET hit == Get(services, Key(msg.service_path, msg.service_method))
    IN /\ decoded' = [decoded EXCEPT ![c] = Append(@, msg)]
       /\ IF hit # None THEN Submit(c, msg, hit[1]) ELSE Miss(c, msg)

\* msg.decode returns Ok for a request that arrives while the loop reads
DecodeOk(c, service_path, service_method, payload) ==
    /\ pc[c] = "reading"
    /\ nreq < MaxReqs
    /\ Dispatch(c, Request(nreq + 1, service_path, service_method, payload))
    /\ nreq' = nreq + 1
    /\ UNCHANGED <<regVars, acceptor, peer, sock, worker, wire>>

\* a decode error that leaves the loop without shutting the socket down
DecodeErrNoShutdown(c) ==
    /\ pc[c] = "reading"
    /\ pc' = [pc EXCEPT ![c] = "closed"]
    /\ UNCHANGED <<regVars, acceptor, peer, sock, decoded, queue, worker, loopw,
                   wire, nreq>>

\* msg.decode returns Err: shut the socket down both ways and leave the loop
DecodeErr(c) ==
    /\ pc[c] = "reading"
    /\ sock' = [sock EXCEPT ![c] = "shutdown"]
    /\ pc' = [pc EXCEPT ![c] = "closed"]
    /\ UNCHANGED <<regVars, acceptor, peer, decoded, queue, worker, loopw, wire,
                   nreq>>

\* the decode loop writes (part of) its not-found reply; a failed write
\* panics (unwrap) and unwinds the connection task
LoopWrite(c) ==
    /\ pc[c] = "writing"
    /\ IF Writable(c)
       THEN \E k \in 1..(FrameChunks - loopw[c].pos) :
              /\ wire' = [wire EXCEPT ![c] = @ \o Chunks(loopw[c].data[1], loopw[c].pos, k)]
              /\ IF loopw[c].pos + k = FrameChunks
                 THEN /\ loopw' = [loopw EXCEPT ![c] = NoWrite]
                      /\ pc' = [pc EXCEPT ![c] = "reading"]
                 ELSE /\ loopw' = [loopw EXCEPT ![c].pos = @ + k]
                      /\ UNCHANGED pc
       ELSE /\ pc' = [pc EXCEPT ![c] = "panicked"]
            /\ loopw' = [loopw EXCEPT ![c] = NoWrite]
            /\ UNCHANGED wire
    /\ UNCHANGED <<regVars, acceptor, peer, sock, decoded, queue, worker, nreq>>

(* ------------------------------ worker pool ---------------------------- *)
\* a channel that hands a job to a pool thread and keeps it for the next
TakeJobKeep(c, w) ==
    /\ w \in DOMAIN worker[c]
    /\ Live(c)
    /\ worker[c][w].st = "idle"
    /\ queue[c] # <<>>
    /\ worker' = [worker EXCEPT ![c][w] =
                    [st |-> "run", msg |-> Some(Head(queue[c]).msg),
                     f |-> Some(Head(queue[c]).f), pos |-> 0]]
    /\ UNCHANGED <<regVars, acceptor, pc, peer, sock, decoded, queue, loopw, wire,
                   nreq>>

\* a pool thread receives the next job from the channel (the idle threads
\* are interchangeable: the lowest-numbered one is taken)
TakeJob(c, w) ==
    /\ w \in DOMAIN worker[c]
    /\ Live(c)
    /\ worker[c][w].st = "idle"
    /\ \A v \in DOMAIN worker[c] : v < w => worker[c][v].st # "idle"
    /\ queue[c] # <<>>
    /\ worker' = [worker EXCEPT ![c][w] =
                    [st |-> "run", msg |-> Some(Head(queue[c]).msg),
                     f |-> Some(Head(queue[c]).f), pos |-> 0]]
    /\ queue' = [queue EXCEPT ![c] = Tail(@)]
    /\ UNCHANGED <<regVars, acceptor, pc, peer, sock, decoded, loopw, wire, nreq>>

\* invoke_fn up to encode: call the handler; an Err result panics (unwrap)
\* and the pool thread is gone
Invoke(c, w) ==
    /\ w \in DOMAIN worker[c]
    /\ Live(c)
    /\ worker[c][w].st = "run"
    /\ LET msg == worker[c][w].msg[1]
           reply == Call(worker[c][w].f[1], msg.payload)
       IN worker' = [worker EXCEPT ![c][w] =
                       IF reply.ok
                       THEN [st |-> "write", msg |-> Some(HandlerReply(msg, reply.val)),
                             f |-> None, pos |-> 0]
                       ELSE [st |-> "dead", msg |-> None, f |-> None, pos |-> 0]]
    /\ UNCHANGED <<regVars, acceptor, pc, peer, sock, decoded, queue, loopw, wire,
                   nreq>>

\* invoke_fn's write_all and flush: write (part of) the frame; a failed
\* write is ignored and the job ends
WorkerWrite(c, w) ==
    /\ w \in DOMAIN worker[c]
    /\ Live(c)
    /\ worker[c][w].st = "write"
    /\ IF Writable(c)
       THEN \E k \in 1..(FrameChunks - worker[c][w].pos) :
              /\ wire' = [wire EXCEPT ![c] =
                            @ \o Chunks(worker[c][w].msg[1], worker[c][w].pos, k)]
              /\ worker' = [worker EXCEPT ![c][w] =
                              IF worker[c][w].pos + k = FrameChunks
                              THEN IdleWorker
                              ELSE [@ EXCEPT !.pos = @ + k]]
       ELSE /\ worker' = [worker EXCEPT ![c][w] = IdleWorker]
            /\ UNCHANGED wire
    /\ UNCHANGED <<regVars, acceptor, pc, peer, sock, decoded, queue, loopw, nreq>>

\* the scope of pool.scoped is dropped, on return or while unwinding: it
\* joins the pool threads (they first run every job already sent) and panics
\* if one of them has ended by a panic; a panic raised while the task is
\* already unwinding aborts the process
JoinReady(c) ==
    \/ PoolGone(c)
    \/ /\ queue[c] = <<>>
       /\ \A w \in DOMAIN worker[c] : worker[c][w].st \in {"idle", "dead"}

JoinAll(c) ==
    /\ pc[c] \in {"closed", "panicked"}
    /\ JoinReady(c)
    /\ IF pc[c] = "panicked" /\ \E w \in DOMAIN worker[c] : worker[c][w].st = "dead"
       THEN /\ pc' = [d \in DOMAIN pc |->
                        IF d = c \/ pc[d] \in {"panicked", "aborted"} THEN "aborted"
                        ELSE IF pc[d] \in {"none", "exited"} THEN pc[d] ELSE "killed"]
            /\ sock' = [d \in DOMAIN sock |->
                          IF pc[d] = "none" THEN sock[d] ELSE "shutdown"]
            /\ acceptor' = "killed"
       ELSE /\ pc' = [pc EXCEPT ![c] = IF pc[c] = "panicked" THEN "aborted" ELSE "exited"]
            /\ sock' = [sock EXCEPT ![c] = "shutdown"]
            /\ UNCHANGED acceptor
    /\ UNCHANGED <<regVars, peer, decoded, queue, worker, loopw, wire, nreq>>

(* ------------------------------ specification -------------------------- *)
\* the registry the server is started with: two register_fn calls
Init ==
    /\ services = Insert(Insert({}, Key("a", "c"), "echo"), Key("a.b", "c"), "fail")
    /\ registered = [pm \in Paths \X Methods |->
                       IF pm = <<"a", "c">> THEN Some("echo")
                       ELSE IF pm = <<"a.b", "c">> THEN Some("fail") ELSE None]
    /\ got = None
    /\ ConnInit

Next ==
    \/ \E c \in Conns : Accept(c)
    \/ AcceptFail
    \/ \E c \in Conns : PeerReset(c)
    \/ \E c \in Conns, pm \in ReqPairs, d \in Payloads : DecodeOk(c, pm[1], pm[2], d)
    \/ \E c \in Conns : DecodeErr(c)
    \/ \E c \in Conns : LoopWrite(c)
    \/ \E c \in Conns, w \in Workers : TakeJob(c, w)
    \/ \E c \in Conns, w \in Workers : Invoke(c, w)
    \/ \E c \in Conns, w \in Workers : WorkerWrite(c, w)
    \/ \E c \in Conns : JoinAll(c)

Spec == Init /\ [][Next]_vars

\* the threads of a connection (its decode loop once it holds a decoded
\* request, and its pool threads) are scheduled by the operating system and
\* keep taking steps; what the client sends and when is not constrained
Fairness ==
    /\ \A c \in Conns : WF_vars(LoopWrite(c)) /\ WF_vars(JoinAll(c))
    /\ \A c \in Conns, w \in Workers :
          WF_vars(TakeJob(c, w)) /\ WF_vars(Invoke(c, w)) /\ WF_vars(WorkerWrite(c, w))

FairSpec == Spec /\ Fairness

(* ------------------------------ helpers -------------------------------- *)
AllPairs == Paths \X Methods

\* entries the registry holds under the key of a pair
EntriesOf(pm) == {e \in services : e[1] = Key(pm[1], pm[2])}

\* positions of wire[c] that carry part p of the reply with sequence number n
PartsOf(c, n, p) ==
    {i \in DOMAIN wire[c] : wire[c][i].frame.seq = n /\ wire[c][i].part = p}

\* every part of the reply to request n has been written on c
Replied(c, n) == \A p \in 1..FrameChunks : PartsOf(c, n, p) # {}

\* the handler the registry resolves a request to (None on a miss)
Resolve(msg) == Get(services, Key(msg.service_path, msg.service_method))

\* the job of request n is still queued or running on c
InFlight(c, n) ==
    \/ \E i \in DOMAIN queue[c] : queue[c][i].msg.seq = n
    \/ \E w \in Workers : /\ worker[c][w].st \in {"run", "write"}
                          /\ worker[c][w].msg[1].seq = n

(* ------------------------------ C1 ------------------------------------- *)
\* C1: after any sequence of register_fn calls, get_fn of every pair that was
\* registered returns the handler of the latest register_fn call for that
\* exact pair, and the registry holds exactly one entry for the pair.
C1_LastWriteWins ==
    \A pm \in AllPairs :
        registered[pm] # None =>
            /\ get_fn(services, pm[1], pm[2]) = registered[pm]
            /\ Cardinality(EntriesOf(pm)) = 1

(* ------------------------------ C2 ------------------------------------- *)
\* C2: get_fn of a pair that was never passed to register_fn returns None,
\* whatever other pairs were registered (dots in the strings included).
C2_NeverRegisteredAbsent ==
    got # None =>
        (registered[<<got.path, got.method>>] = None => got.result = None)

(* ------------------------------ C3 ------------------------------------- *)
\* the not-found reply the claim describes for a request
ExpectedNotFound(msg) ==
    [seq |-> msg.seq, service_path |-> msg.service_path,
     service_method |-> msg.service_method,
     metadata |-> {<<SERVICE_ERROR, "service " \o msg.service_path \o "."
                                     \o msg.service_method \o " not found">>},
     payload |-> ""]

\* the decode loop has not finished writing the reply to request n (it is
\* writing it, or the process ended while it was)
LoopWriting(c, n) ==
    /\ pc[c] \in {"writing", "killed"}
    /\ loopw[c].data # None
    /\ loopw[c].data[1].seq = n

\* the decode loop's write of the reply to the i-th request of c failed
LoopWriteFailed(c, i) == pc[c] \in {"panicked", "aborted"} /\ i = Len(decoded[c])

\* C3: a decoded request whose key is not in the registry is answered by the
\* decode loop itself: no job is submitted for it, every chunk written for it
\* belongs to the get_reply() of the request with the service-error entry
\* "service {key} not found" and an empty payload, and once the loop has
\* written it (the socket taking the write) the wire holds it exactly once.
C3_NotFoundReply ==
    \A c \in Conns : \A i \in DOMAIN decoded[c] :
        LET msg == decoded[c][i] IN
        Resolve(msg) = None =>
            /\ ~InFlight(c, msg.seq)
            /\ \A j \in DOMAIN wire[c] :
                 wire[c][j].frame.seq = msg.seq =>
                     wire[c][j].frame = ExpectedNotFound(msg)
            /\ \A p \in 1..FrameChunks : Cardinality(PartsOf(c, msg.seq, p)) <= 1
            /\ (LoopWriting(c, msg.seq) \/ LoopWriteFailed(c, i) \/ Replied(c, msg.seq))

\* a not-found reply has been written in full and the loop is reading again
C3_Witness ==
    \E c \in Conns : \E i \in DOMAIN decoded[c] :
        /\ Resolve(decoded[c][i]) = None
        /\ Replied(c, decoded[c][i].seq)
        /\ pc[c] = "reading"

(* ------------------------------ C4 ------------------------------------- *)
\* C4: the chunks of one reply frame are contiguous on the socket: a chunk
\* that is not the last of its frame is followed by the next chunk of the
\* same frame, and a frame starts only where the previous one has ended.
C4_NoInterleaving ==
    \A c \in Conns : \A i \in DOMAIN wire[c] :
        /\ (i = 1 => wire[c][i].part = 1)
        /\ (i < Len(wire[c]) =>
              IF wire[c][i].part < FrameChunks
              THEN /\ wire[c][i + 1].frame = wire[c][i].frame
                   /\ wire[c][i + 1].part = wire[c][i].part + 1
              ELSE wire[c][i + 1].part = 1)

(* ------------------------------ C5 ------------------------------------- *)
\* request n was decoded on c and resolved to a handler that returns Ok
OkSubmitted(c, n) ==
    \E i \in DOMAIN decoded[c] :
        /\ decoded[c][i].seq = n
        /\ Resolve(decoded[c][i]) # None
        /\ Call(Resolve(decoded[c][i])[1], decoded[c][i].payload).ok

\* a request decoded on c resolved to a handler that returns Err
FailDecoded(c) ==
    \E i \in DOMAIN decoded[c] :
        /\ Resolve(decoded[c][i]) # None
        /\ ~Call(Resolve(decoded[c][i])[1], decoded[c][i].payload).ok

\* the connection is open: its loop is running and the client has not reset it
StaysOpen(c) == pc[c] \in {"reading", "writing"} /\ peer[c] = "up"

\* every chunk on the wire belongs to the reply of a request decoded on the
\* same connection, a handler reply carries the handler's output for that
\* request's payload, and no part of a reply is written twice
Correlated ==
    \A c \in Conns : \A j \in DOMAIN wire[c] :
        LET fr == wire[c][j].frame IN
        /\ Cardinality(PartsOf(c, fr.seq, wire[c][j].part)) = 1
        /\ \E i \in DOMAIN decoded[c] :
             LET msg == decoded[c][i] IN
             /\ msg.seq = fr.seq
             /\ fr.service_path = msg.service_path
             /\ fr.service_method = msg.service_method
             /\ Resolve(msg) # None =>
                  /\ Call(Resolve(msg)[1], msg.payload).ok
                  /\ fr.payload = Call(Resolve(msg)[1], msg.payload).val
                  /\ fr.metadata = {}

\* C5: on a connection that stays open and whose handlers all return Ok,
\* every request submitted to the pool is eventually answered in full, each
\* reply carrying its own request's correlation fields and handler output,
\* also when more requests are in flight than the pool has threads.
C5_AllRepliesWritten ==
    /\ []Correlated
    /\ \A c \in Conns : \A n \in 1..MaxReqs :
         OkSubmitted(c, n) ~> (Replied(c, n) \/ ~StaysOpen(c) \/ FailDecoded(c))

\* more requests than pool threads were decoded on one open connection, all
\* for handlers that return Ok, and all of them have been answered
C5_Witness ==
    \E c \in Conns :
        /\ Len(decoded[c]) > ThreadNumber
        /\ StaysOpen(c)
        /\ \A i \in DOMAIN decoded[c] :
             OkSubmitted(c, decoded[c][i].seq) /\ Replied(c, decoded[c][i].seq)

(* ------------------------------ C6 ------------------------------------- *)
\* C6: a failed decode shuts the socket down and closes the connection
\* without writing or submitting anything, and a closed connection stays
\* closed (until its task or the process ends): nothing more is decoded on
\* it and no job is submitted for it.
C6_DecodeErrorCloses ==
    [][\A c \in Conns :
         /\ (/\ pc[c] = "reading"
             /\ pc'[c] \notin {"reading", "killed"}
             /\ decoded'[c] = decoded[c]) =>
               /\ pc'[c] = "closed"
               /\ sock'[c] = "shutdown"
               /\ wire'[c] = wire[c]
               /\ queue'[c] = queue[c]
         /\ pc[c] \in {"closed", "exited"} =>
               /\ pc'[c] \in {"closed", "exited", "killed"}
               /\ sock'[c] = "shutdown"
               /\ decoded'[c] = decoded[c]
               /\ loopw'[c] = loopw[c]
               /\ Len(queue'[c]) <= Len(queue[c])]_vars

\* a connection was closed by a decode error after it had decoded a request
C6_Witness ==
    \E c \in Conns : pc[c] = "closed" /\ decoded[c] # <<>> /\ sock[c] = "shutdown"

(* ------------------------------ C7 ------------------------------------- *)
\* C7: a well-formed request is always answered: once the job of a request
\* whose handler returned a failure has ended on a connection that takes
\* writes, the wire holds a reply to it with an error entry in its metadata.
C7_FailureReplied ==
    \A c \in Conns : \A i \in DOMAIN decoded[c] :
        LET msg == decoded[c][i] IN
        (/\ Resolve(msg) # None
         /\ ~Call(Resolve(msg)[1], msg.payload).ok
         /\ ~InFlight(c, msg.seq)
         /\ Writable(c)) =>
            /\ Replied(c, msg.seq)
            /\ \A j \in DOMAIN wire[c] :
                 wire[c][j].frame.seq = msg.seq => wire[c][j].frame.metadata # {}

(* ------------------------------ C8 ------------------------------------- *)
\* C8: a handler failure aborts only its own request: the step in which a
\* handler fails leaves the connection open and its loop where it was, and
\* every request of the connection whose handler returns Ok is still
\* answered as long as the connection stays open.
C8_OthersStillReplied ==
    /\ [][\A c \in Conns :
            (\E w \in Workers : worker[c][w].st = "run" /\ worker'[c][w].st = "dead") =>
                pc'[c] = pc[c] /\ sock'[c] = sock[c] /\ queue'[c] = queue[c]]_vars
    /\ \A c \in Conns : \A n \in 1..MaxReqs :
         OkSubmitted(c, n) ~> (Replied(c, n) \/ ~StaysOpen(c))

(* ------------------------------ C9 ------------------------------------- *)
\* C9: a failed write never ends a connection: the decode loop leaves its
\* open states only by a decode failure, which closes the connection.
C9_WriteFailureKeepsOpen ==
    [][\A c \in Conns :
         (pc[c] \in {"reading", "writing"} /\ pc'[c] \notin {"reading", "writing"}) =>
             (pc[c] = "reading" /\ pc'[c] = "closed")]_vars

(* ------------------------------ C10 ------------------------------------ *)
\* everything that belongs to one connection
ConnState(d) ==
    <<pc[d], peer[d], sock[d], decoded[d], queue[d], worker[d], loopw[d], wire[d]>>

\* the step is an error on connection c: a decode error, a dispatch miss, a
\* handler failure, or a failed write by the loop (the panic it raises and
\* the unwinding of the task that follows) or by a pool thread
ErrorOn(c) ==
    \/ pc[c] = "reading" /\ pc'[c] = "closed"
    \/ pc[c] = "reading" /\ pc'[c] = "writing"
    \/ pc[c] = "writing" /\ pc'[c] = "panicked"
    \/ pc[c] = "panicked" /\ pc'[c] # "panicked"
    \/ \E w \in Workers : worker[c][w].st = "run" /\ worker'[c][w].st = "dead"
    \/ \E w \in Workers : /\ worker[c][w].st = "write"
                          /\ worker'[c][w].st = "idle"
                          /\ wire'[c] = wire[c]

\* C10: an error on one connection (and what it sets off in that connection's
\* task) leaves the registry, the accept loop and every other connection
\* exactly as they were.
C10_ErrorsContained ==
    [][\A c \in Conns :
         ErrorOn(c) =>
             /\ services' = services
             /\ acceptor' = acceptor
             /\ \A d \in Conns \ {c} : ConnState(d)' = ConnState(d)]_vars

(* ------------------------------ plugin chain --------------------------- *)
\* RegisterPlugin instances that may be added to the server
MaxPlugins == 3
Plugins == 1..MaxPlugins

\* the plugin chain is append-only: a plugin is added at its end
add_register_plugin(p) ==
    /\ reg.st \in {"none", "done"}
    /\ \A k \in DOMAIN register_plugins : register_plugins[k] # p
    /\ register_plugins' = Append(register_plugins, p)
    /\ UNCHANGED <<services, registered, got, connVars, reg, plog, raw_fd, nclose,
                   typed, inbox, arg_n, thread_number>>

\* a register_fn call that stores the handler before it runs the plugins
RegisterBeginEager(service_path, service_method, f) ==
    /\ reg.st \in {"none", "done"}
    /\ reg' = [path |-> service_path, method |-> service_method, f |-> f, i |-> 1,
               st |-> "plugins",
               before |-> get_fn(services, service_path, service_method),
               chain |-> register_plugins]
    /\ plog' = <<>>
    /\ services' = Insert(services, Key(service_path, service_method), f)
    /\ UNCHANGED <<registered, got, connVars, register_plugins, raw_fd, nclose,
                   typed, inbox, arg_n, thread_number>>

\* register_fn is entered: it locks the plugin list (reg.chain is the list
\* as the call sees it) and starts iterating
RegisterBegin(service_path, service_method, f) ==
    /\ reg.st \in {"none", "done"}
    /\ reg' = [path |-> service_path, method |-> service_method, f |-> f, i |-> 1,
               st |-> "plugins",
               before |-> get_fn(services, service_path, service_method),
               chain |-> register_plugins]
    /\ plog' = <<>>
    /\ UNCHANGED <<services, registered, got, connVars, register_plugins, raw_fd,
                   nclose, typed, inbox, arg_n, thread_number>>

\* the invocation of the next plugin as the log records it
PluginRecord(ok) ==
    [plugin |-> reg.chain[reg.i], path |-> reg.path, method |-> reg.method,
     f |-> reg.f, ok |-> ok]

\* a plugin loop that stops at the first plugin that returns Err
PluginCallStopOnErr(ok) ==
    /\ reg.st = "plugins"
    /\ reg.i <= Len(reg.chain)
    /\ plog' = Append(plog, PluginRecord(ok))
    /\ reg' = [reg EXCEPT !.i = IF ok THEN @ + 1 ELSE Len(reg.chain) + 1]
    /\ UNCHANGED <<services, registered, got, connVars, register_plugins, raw_fd,
                   nclose, typed, inbox, arg_n, thread_number>>

\* one iteration of the plugin loop: the plugin's register_fn returns Ok or
\* Err; an Err is printed and the loop goes on
PluginCall(ok) ==
    /\ reg.st = "plugins"
    /\ reg.i <= Len(reg.chain)
    /\ plog' = Append(plog, PluginRecord(ok))
    /\ reg' = [reg EXCEPT !.i = @ + 1]
    /\ UNCHANGED <<services, registered, got, connVars, register_plugins, raw_fd,
                   nclose, typed, inbox, arg_n, thread_number>>

\* after the loop: the handler is inserted under its key and register_fn returns
RegisterCommit ==
    /\ reg.st = "plugins"
    /\ reg.i > Len(reg.chain)
    /\ services' = Insert(services, Key(reg.path, reg.method), reg.f)
    /\ registered' = [registered EXCEPT ![<<reg.path, reg.method>>] = Some(reg.f)]
    /\ reg' = [reg EXCEPT !.st = "done"]
    /\ UNCHANGED <<got, connVars, register_plugins, plog, raw_fd, nclose, typed,
                   inbox, arg_n, thread_number>>

\* the pairs registered while plugins are in the chain
PlugPairs == {<<"a", "c">>, <<"a.b", "c">>}

PlugInit == RegInit

PlugNext ==
    \/ \E p \in Plugins : add_register_plugin(p)
    \/ \E pm \in PlugPairs, f \in Handlers : RegisterBegin(pm[1], pm[2], f)
    \/ \E ok \in BOOLEAN : PluginCall(ok)
    \/ RegisterCommit

PlugSpec == PlugInit /\ [][PlugNext]_vars

(* ------------------------------ C11 ------------------------------------ *)
\* the plugins invoked so far by the register_fn call, in order
Invoked == [k \in DOMAIN plog |-> plog[k].plugin]

\* C11: a register_fn call invokes the plugins of the chain in the order they
\* were added, each exactly once and with the call's arguments, whatever the
\* plugins return, and when it has returned the handler is in the registry.
C11_PluginsOnceInOrder ==
    reg.st # "none" =>
        /\ reg.st = "plugins" => reg.chain = register_plugins
        /\ Invoked = SubSeq(reg.chain, 1, reg.i - 1)
        /\ \A k \in DOMAIN plog :
             /\ plog[k].path = reg.path
             /\ plog[k].method = reg.method
             /\ plog[k].f = reg.f
        /\ reg.st = "done" =>
             /\ Invoked = reg.chain
             /\ get_fn(services, reg.path, reg.method) = Some(reg.f)

\* a call has returned with three plugins in the chain, added in an order
\* that is not their numbering, the second of which returned a failure
C11_Witness ==
    /\ reg.st = "done"
    /\ Len(reg.chain) = 3
    /\ reg.chain[1] > reg.chain[2]
    /\ Len(plog) = 3
    /\ ~plog[2].ok
    /\ plog[3].ok

(* ------------------------------ C18 ------------------------------------ *)
\* C18: while the plugins of a register_fn call are being invoked a lookup
\* of the pair still returns what it returned before the call, and the
\* registry changes only in the step that follows the last plugin.
C18_PluginsBeforeInsert ==
    /\ [](reg.st = "plugins" =>
            get_fn(services, reg.path, reg.method) = reg.before)
    /\ [][services' # services =>
            /\ reg.st = "plugins"
            /\ reg.i > Len(reg.chain)
            /\ reg'.st = "done"
            /\ get_fn(services', reg.path, reg.method) = Some(reg.f)]_vars

\* a plugin of the call has run, the next has not, and the handler being
\* registered differs from what a lookup of the pair returns
C18_Witness ==
    /\ reg.st = "plugins"
    /\ reg.i > 1
    /\ reg.i <= Len(reg.chain)
    /\ reg.before # None
    /\ reg.before # Some(reg.f)

(* ------------------------------ start and close ------------------------ *)
\* close() calls a Server value may take on one recorded descriptor
MaxCloses == 3

\* the descriptor of the bound listener, as as_raw_fd() returns it
as_raw_fd == "listener"

\* Server::start; bound tells whether the address parses and binds. A failed
\* bind returns before raw_fd is assigned. A bound listener is recorded in
\* raw_fd and the accept loop runs until start_with_listener returns. start
\* takes &mut self: no other call on the Server runs until it has returned.
start(bound) ==
    /\ acceptor \in {"created", "failed"}
    /\ IF bound
       THEN /\ acceptor' = "listening"
            /\ raw_fd' = Some(as_raw_fd)
            /\ nclose' = 0
       ELSE /\ acceptor' = "failed"
            /\ UNCHANGED <<raw_fd, nclose>>
    /\ UNCHANGED <<services, registered, got, register_plugins, reg, plog, typed,
                   inbox, arg_n, thread_number>>
    /\ UNCHANGED <<pc, peer, sock, decoded, queue, worker, loopw, wire, nreq>>

\* Server::close: when a descriptor is recorded it is handed to libc::close;
\* raw_fd keeps its value. close takes &self, so it runs only when start is
\* not running.
close ==
    /\ acceptor \in {"created", "failed"}
    /\ nclose < MaxCloses
    /\ nclose' = IF raw_fd # None THEN nclose + 1 ELSE nclose
    /\ UNCHANGED <<services, registered, got, connVars, register_plugins, reg, plog,
                   raw_fd, typed, inbox, arg_n, thread_number>>

\* Server::new: nothing is bound and no descriptor is recorded
LifeInit ==
    /\ Init!1
    /\ Init!2
    /\ got = None
    /\ acceptor = "created"
    /\ pc = [c \in Conns |-> "none"]
    /\ peer = [c \in Conns |-> "up"]
    /\ sock = [c \in Conns |-> "open"]
    /\ decoded = [c \in Conns |-> <<>>]
    /\ queue = [c \in Conns |-> <<>>]
    /\ worker = [c \in Conns |-> [w \in Workers |-> IdleWorker]]
    /\ loopw = [c \in Conns |-> NoWrite]
    /\ wire = [c \in Conns |-> <<>>]
    /\ nreq = 0
    /\ register_plugins = <<>>
    /\ reg = NoCall
    /\ plog = <<>>
    /\ raw_fd = None
    /\ nclose = 0
    /\ typed = NoTyped
    /\ inbox = [c \in Conns |-> <<>>]
    /\ arg_n = ThreadNumber
    /\ thread_number = new(ThreadNumber)

\* the calls on the Server value, and what the accepted connections do
\* meanwhile (they are detached threads and outlive the accept loop)
LifeNext ==
    \/ \E bound \in BOOLEAN : start(bound)
    \/ close
    \/ AcceptFail
    \/ \E c \in Conns : Accept(c)
    \/ \E c \in Conns : PeerReset(c)
    \/ \E c \in Conns : DecodeErr(c)
    \/ \E c \in Conns : JoinAll(c)

LifeSpec == LifeInit /\ [][LifeNext]_vars

(* ------------------------------ C12 ------------------------------------ *)
\* C12: the descriptor recorded at bind is closed at most once, whatever
\* start and close calls are made: by the listener when the accept loop
\* returns, or by close(), and a further close() closes nothing.
C12_ClosedOnce ==
    /\ nclose <= 1
    /\ raw_fd = None => nclose = 0

(* ------------------------------ C13 ------------------------------------ *)
\* the step spawns the task of connection c
Spawned(c) == pc[c] = "none" /\ pc'[c] # "none"

\* C13: while the accept loop runs, the next connection is accepted whatever
\* the tasks spawned so far are doing; an accept spawns exactly one task and
\* leaves the loop running; the loop ends only by an accept failure, which
\* makes it return the Network error and changes no connection.
C13_AcceptLoop ==
    /\ [](\A c \in Conns :
            (/\ acceptor = "listening"
             /\ pc[c] = "none"
             /\ \A d \in Conns : d < c => pc[d] # "none") => ENABLED Accept(c))
    /\ [][/\ \A c \in Conns :
               Spawned(c) =>
                   /\ acceptor = "listening" /\ acceptor' = "listening"
                   /\ pc'[c] = "reading"
                   /\ \A d \in Conns \ {c} : ConnState(d)' = ConnState(d)
          /\ acceptor' # acceptor =>
                   /\ acceptor = "listening" /\ acceptor' = "failed"
                   /\ \A d \in Conns : ConnState(d)' = ConnState(d)]_vars

(* ------------------------------ typed adapter -------------------------- *)
\* longest request payload handed to a typed handler
MaxLen == 4

\* bytes of a payload
Bytes == {"{", "}", "#", "0", "1"}
Digits == {"0", "1"}
DigitOf(ch) == IF ch = "0" THEN 0 ELSE 1
Bit(n) == IF n = 0 THEN "0" ELSE "1"

\* the serialization formats a message may name; the codec knows two of them
SerializeTypes == {"JSON", "MsgPack", "SerializeNone"}

\* payloads of up to MaxLen bytes
Slices == UNION {[1..n -> Bytes] : n \in 0..MaxLen}

\* the codec of the argument type: a JSON payload is {ab}, a MsgPack payload
\* is #ab; anything else, and any other format, fails to decode
from_slice(st, x) ==
    IF st = "JSON" /\ Len(x) = 4 /\ x[1] = "{" /\ x[4] = "}"
          /\ x[2] \in Digits /\ x[3] \in Digits
    THEN Ok([a |-> DigitOf(x[2]), b |-> DigitOf(x[3])])
    ELSE IF st = "MsgPack" /\ Len(x) = 3 /\ x[1] = "#"
               /\ x[2] \in Digits /\ x[3] \in Digits
    THEN Ok([a |-> DigitOf(x[2]), b |-> DigitOf(x[3])])
    ELSE Err

\* the codec of the reply type: a single number
into_bytes(st, reply) ==
    IF st = "JSON" THEN Ok(<<"{", Bit(reply.c), "}">>)
    ELSE IF st = "MsgPack" THEN Ok(<<"#", Bit(reply.c)>>)
    ELSE Err

\* $service_fn: the application function (a multiplication service)
service_fn(args) == [c |-> args.a * args.b]

\* the handler f = |x, st| {...} is called: args starts as the default value
TypedCall(x, st) == [NoTyped EXCEPT !.x = x, !.st = st, !.at = "entry"]

\* an adapter that goes on with the default arguments when decoding fails
TypedFromSliceDefaulted ==
    /\ typed.at = "entry"
    /\ LET r == from_slice(typed.st, typed.x) IN
       typed' = [typed EXCEPT !.at = "decoded",
                              !.args = IF r.ok THEN r.val ELSE @]
    /\ UNCHANGED <<services, registered, got, connVars, register_plugins, reg,
                   plog, raw_fd, nclose, inbox, arg_n, thread_number>>

\* args.from_slice(st, x)?: a decode failure returns Err from the handler
TypedFromSlice ==
    /\ typed.at = "entry"
    /\ LET r == from_slice(typed.st, typed.x) IN
       typed' = IF r.ok
                THEN [typed EXCEPT !.at = "decoded", !.args = r.val]
                ELSE [typed EXCEPT !.at = "returned", !.result = Some(Err)]
    /\ UNCHANGED <<services, registered, got, connVars, register_plugins, reg,
                   plog, raw_fd, nclose, inbox, arg_n, thread_number>>

\* let reply = $service_fn(args)
TypedServiceFn ==
    /\ typed.at = "decoded"
    /\ typed' = [typed EXCEPT !.at = "called", !.invoked = TRUE,
                              !.passed = Some(typed.args),
                              !.reply = Some(service_fn(typed.args))]
    /\ UNCHANGED <<services, registered, got, connVars, register_plugins, reg,
                   plog, raw_fd, nclose, inbox, arg_n, thread_number>>

\* reply.into_bytes(st) is the handler's result
TypedIntoBytes ==
    /\ typed.at = "called"
    /\ typed' = [typed EXCEPT !.at = "returned",
                              !.result = Some(into_bytes(typed.st, typed.reply[1]))]
    /\ UNCHANGED <<services, registered, got, connVars, register_plugins, reg,
                   plog, raw_fd, nclose, inbox, arg_n, thread_number>>

\* Server::new, and a call of the typed handler with some payload and format
AdapterInit ==
    /\ services = {}
    /\ registered = [pm \in Paths \X Methods |-> None]
    /\ got = None
    /\ acceptor = "created"
    /\ pc = [c \in Conns |-> "none"]
    /\ peer = [c \in Conns |-> "up"]
    /\ sock = [c \in Conns |-> "open"]
    /\ decoded = [c \in Conns |-> <<>>]
    /\ queue = [c \in Conns |-> <<>>]
    /\ worker = [c \in Conns |-> [w \in Workers |-> IdleWorker]]
    /\ loopw = [c \in Conns |-> NoWrite]
    /\ wire = [c \in Conns |-> <<>>]
    /\ nreq = 0
    /\ register_plugins = <<>>
    /\ reg = NoCall
    /\ plog = <<>>
    /\ raw_fd = None
    /\ nclose = 0
    /\ typed \in {TypedCall(x, st) : x \in Slices, st \in SerializeTypes}
    /\ inbox = [c \in Conns |-> <<>>]
    /\ arg_n = ThreadNumber
    /\ thread_number = new(ThreadNumber)

AdapterNext ==
    \/ TypedFromSlice
    \/ TypedServiceFn
    \/ TypedIntoBytes

AdapterSpec == AdapterInit /\ [][AdapterNext]_vars

(* ------------------------------ C14 ------------------------------------ *)
\* C14: when the payload of a call does not decode in the call's format, the
\* typed handler returns Err, the application function is not invoked and
\* the handler does not panic; the application function only ever receives
\* the arguments decoded from the payload.
C14_DecodeFailureIsErr ==
    typed.at # "none" =>
        LET d == from_slice(typed.st, typed.x) IN
        /\ typed.at \in {"entry", "decoded", "called", "returned"}
        /\ (~d.ok /\ typed.at # "entry") =>
               /\ typed.at = "returned"
               /\ typed.result = Some(Err)
               /\ ~typed.invoked
               /\ typed.passed = None
        /\ typed.invoked => d.ok /\ typed.passed = Some(d.val)

\* a payload that is a well-formed JSON encoding was sent with the MsgPack
\* format, and the handler has returned
C14_Witness ==
    /\ typed.at = "returned"
    /\ typed.st = "MsgPack"
    /\ typed.x = <<"{", "1", "0", "}">>
    /\ from_slice("JSON", typed.x).ok
    /\ typed.result = Some(Err)
    /\ ~typed.invoked

(* ------------------------------ request stream ------------------------- *)
\* a client writes a request to its connection; it stays in the socket's
\* receive buffer until the decode loop reads it
ClientSend(c, service_path, service_method, payload) ==
    /\ pc[c] \in {"reading", "writing"}
    /\ nreq < MaxReqs
    /\ inbox' = [inbox EXCEPT ![c] =
                   Append(@, Request(nreq + 1, service_path, service_method, payload))]
    /\ nreq' = nreq + 1
    /\ UNCHANGED <<services, registered, got, register_plugins, reg, plog, raw_fd,
                   nclose, typed, arg_n, thread_number>>
    /\ UNCHANGED <<acceptor, pc, peer, sock, decoded, queue, worker, loopw, wire>>

\* a decode that returns the request that arrived last
DecodeInNewest(c) ==
    /\ pc[c] = "reading"
    /\ inbox[c] # <<>>
    /\ Dispatch(c, inbox[c][Len(inbox[c])])
    /\ inbox' = [inbox EXCEPT ![c] = SubSeq(@, 1, Len(@) - 1)]
    /\ UNCHANGED <<services, registered, got, register_plugins, reg, plog, raw_fd,
                   nclose, typed, arg_n, thread_number>>
    /\ UNCHANGED <<acceptor, peer, sock, worker, wire, nreq>>

\* msg.decode(&mut reader) returns Ok: the reader of the decode loop takes
\* the next request from the stream
DecodeIn(c) ==
    /\ pc[c] = "reading"
    /\ inbox[c] # <<>>
    /\ Dispatch(c, Head(inbox[c]))
    /\ inbox' = [inbox EXCEPT ![c] = Tail(@)]
    /\ UNCHANGED <<services, registered, got, register_plugins, reg, plog, raw_fd,
                   nclose, typed, arg_n, thread_number>>
    /\ UNCHANGED <<acceptor, peer, sock, worker, wire, nreq>>

\* msg.decode returns Err once the stream has nothing more to decode
DecodeEof(c) ==
    /\ inbox[c] = <<>>
    /\ DecodeErr(c)

\* Server::new(addr, n) with n = 0 or n = ThreadNumber, the registry of Init,
\* and the accept loop running
StreamInit ==
    /\ Init!1
    /\ Init!2
    /\ got = None
    /\ acceptor = "listening"
    /\ arg_n \in {0, ThreadNumber}
    /\ thread_number = new(arg_n)
    /\ pc = [c \in Conns |-> "none"]
    /\ peer = [c \in Conns |-> "up"]
    /\ sock = [c \in Conns |-> "open"]
    /\ decoded = [c \in Conns |-> <<>>]
    /\ queue = [c \in Conns |-> <<>>]
    /\ worker = [c \in Conns |-> [w \in 1..thread_number |-> IdleWorker]]
    /\ loopw = [c \in Conns |-> NoWrite]
    /\ wire = [c \in Conns |-> <<>>]
    /\ nreq = 0
    /\ register_plugins = <<>>
    /\ reg = NoCall
    /\ plog = <<>>
    /\ raw_fd = None
    /\ nclose = 0
    /\ typed = NoTyped
    /\ inbox = [c \in Conns |-> <<>>]

\* thread numbers of the pools the two constructor arguments give
PoolThreads == 1..new(0) \cup 1..new(ThreadNumber)

StreamNext ==
    \/ \E c \in Conns : Accept(c)
    \/ \E c \in Conns, pm \in ReqPairs, d \in Payloads : ClientSend(c, pm[1], pm[2], d)
    \/ \E c \in Conns : DecodeIn(c)
    \/ \E c \in Conns : DecodeEof(c)
    \/ \E c \in Conns : LoopWrite(c)
    \/ \E c \in Conns, w \in PoolThreads : TakeJob(c, w)
    \/ \E c \in Conns, w \in PoolThreads : Invoke(c, w)
    \/ \E c \in Conns, w \in PoolThreads : WorkerWrite(c, w)
    \/ \E c \in Conns : JoinAll(c)

StreamSpec == StreamInit /\ [][StreamNext]_vars

(* ------------------------------ C15 ------------------------------------ *)
\* sequence numbers of a sequence of requests
Seqs(q) == [i \in DOMAIN q |-> q[i].seq]
Increasing(q) == \A i, j \in DOMAIN q : i < j => q[i] < q[j]

\* sequence numbers of the jobs in a connection's queue
QueueSeqs(c) == [i \in DOMAIN queue[c] |-> queue[c][i].msg.seq]

\* C15: a decode happens only while the connection's loop is at its decode
\* call, one request at a time and never by a pool thread; it takes the
\* request that arrived first among those not yet decoded, so requests are
\* decoded, looked up and submitted in the order they arrived.
C15_DecodeInOrder ==
    /\ [](\A c \in Conns :
            /\ Increasing(Seqs(decoded[c] \o inbox[c]))
            /\ Increasing(QueueSeqs(c))
            /\ pc[c] # "reading" => ~ENABLED DecodeIn(c))
    /\ [][\A c \in Conns :
            (decoded'[c] # decoded[c] \/ Len(inbox'[c]) < Len(inbox[c])) =>
                /\ pc[c] = "reading"
                /\ inbox[c] # <<>>
                /\ decoded'[c] = Append(decoded[c], Head(inbox[c]))
                /\ inbox'[c] = Tail(inbox[c])
                /\ worker'[c] = worker[c]
                /\ Len(queue'[c]) > Len(queue[c]) =>
                       queue'[c][Len(queue'[c])].msg = Head(inbox[c])]_vars

\* two requests have arrived on a connection before the loop decoded the
\* first, and both have been decoded
C15_Witness ==
    \E c \in Conns :
        /\ Len(decoded[c]) = 2
        /\ inbox[c] = <<>>
        /\ Len(queue[c]) = 2

(* ------------------------------ C16 ------------------------------------ *)
\* pool threads of a connection that are executing a job
Running(c) == {w \in DOMAIN worker[c] : worker[c][w].st \in {"run", "write"}}

\* C16: on every connection the handlers executing at one time are at most
\* the configured concurrency (n if n > 0, else twice the processing units),
\* which is thread_number, and each of them executes a request decoded on
\* that connection.
C16_BoundedHandlers ==
    /\ thread_number = (IF arg_n > 0 THEN arg_n ELSE 2 * num_cpus)
    /\ \A c \in Conns :
         /\ Cardinality(Running(c)) <= (IF arg_n > 0 THEN arg_n ELSE 2 * num_cpus)
         /\ \A w \in Running(c) :
              /\ \E i \in DOMAIN decoded[c] :
                    decoded[c][i].seq = worker[c][w].msg[1].seq
              /\ \A d \in Conns \ {c} : \A i \in DOMAIN decoded[d] :
                    decoded[d][i].seq # worker[c][w].msg[1].seq

\* a server built with n = 0 runs as many handlers on a connection as its
\* pool has threads, while another connection is open
C16_Witness ==
    \E c \in Conns :
        /\ arg_n = 0
        /\ Cardinality(Running(c)) = 2 * num_cpus
        /\ \E d \in Conns \ {c} : pc[d] = "reading"

(* ------------------------------ C17 ------------------------------------ *)
\* C17: the decode loop at its decode call takes the next request whatever
\* the pool threads are doing; while the pool has a thread left, the step
\* that decodes a request with a registered handler queues the job, does
\* not touch the pool threads and leaves the loop at its decode call.
C17_SubmitDoesNotBlock ==
    /\ [](\A c \in Conns :
            (pc[c] = "reading" /\ inbox[c] # <<>>) => ENABLED DecodeIn(c))
    /\ [][\A c \in Conns :
            (/\ decoded'[c] # decoded[c]
             /\ Resolve(Head(inbox[c])) # None
             /\ ~PoolGone(c)) =>
                /\ pc'[c] = "reading"
                /\ worker'[c] = worker[c]
                /\ queue'[c] = Append(queue[c], [msg |-> Head(inbox[c]),
                                                 f |-> Resolve(Head(inbox[c]))[1]])]_vars

\* every pool thread of a connection is executing a handler, a job decoded
\* after theirs is queued, and the loop is at its decode call again
C17_Witness ==
    \E c \in Conns :
        /\ pc[c] = "reading"
        /\ \A w \in DOMAIN worker[c] : worker[c][w].st = "run"
        /\ queue[c] # <<>>

(* ------------------------------ C19 ------------------------------------ *)
\* the jobs of request n that connection c holds: queued, or on a pool thread
JobsOf(c, n) ==
    Cardinality({i \in DOMAIN queue[c] : queue[c][i].msg.seq = n})
    + Cardinality({w \in Running(c) : worker[c][w].msg[1].seq = n})

\* the decode loop of c is writing the not-found reply of request n
LoopReplies(c, n) ==
    IF loopw[c].data # None /\ loopw[c].data[1].seq = n THEN 1 ELSE 0

\* the chunks on the wire of c that belong to the reply of request n
FramesOf(c, n) == {j \in DOMAIN wire[c] : wire[c][j].frame.seq = n}

\* C19: a decoded request has at most one producer of a reply, the decode
\* loop when the registry has no handler for it and one pool thread when it
\* has, on its own connection only; no part of its reply is written twice,
\* a completed reply leaves no producer behind, and every chunk written on a
\* connection belongs to a request decoded on that connection.
C19_AtMostOneReply ==
    /\ \A c \in Conns : \A i \in DOMAIN decoded[c] :
         LET msg == decoded[c][i]
             n == msg.seq
         IN /\ JobsOf(c, n) + LoopReplies(c, n) <= 1
            /\ Resolve(msg) = None =>
                 /\ JobsOf(c, n) = 0
                 /\ \A j \in FramesOf(c, n) : wire[c][j].frame = NotFoundReply(msg)
            /\ Resolve(msg) # None =>
                 /\ LoopReplies(c, n) = 0
                 /\ \A j \in FramesOf(c, n) :
                      /\ Call(Resolve(msg)[1], msg.payload).ok
                      /\ wire[c][j].frame =
                           HandlerReply(msg, Call(Resolve(msg)[1], msg.payload).val)
            /\ \A p \in 1..FrameChunks : Cardinality(PartsOf(c, n, p)) <= 1
            /\ Replied(c, n) => JobsOf(c, n) + LoopReplies(c, n) = 0
            /\ \A d \in Conns \ {c} :
                 FramesOf(d, n) = {} /\ JobsOf(d, n) = 0 /\ LoopReplies(d, n) = 0
    /\ \A c \in Conns : \A j \in DOMAIN wire[c] :
         \E i \in DOMAIN decoded[c] : decoded[c][i].seq = wire[c][j].frame.seq

\* one connection has had a request answered by a pool thread and another
\* answered by the decode loop, each in full
C19_Witness ==
    \E c \in Conns : \E i, k \in DOMAIN decoded[c] :
        /\ Resolve(decoded[c][i]) # None
        /\ Resolve(decoded[c][k]) = None
        /\ Replied(c, decoded[c][i].seq)
        /\ Replied(c, decoded[c][k].seq)
        /\ Len(wire[c]) = 2 * FrameChunks

(* ------------------------------ C20 ------------------------------------ *)
\* C20: a connection task that has finished has no submitted handler left:
\* none is still queued and none is still running on a pool thread.
C20_WaitsForHandlers ==
    \A c \in Conns :
        pc[c] \in {"exited", "aborted"} =>
            /\ queue[c] = <<>>
            /\ Running(c) = {}

====
